---- MODULE Spec2Model ----
(***************************************************************************)
(* Font-Nexus (build.py): the top-level runner, process_microsoft,         *)
(* process_apple and the helpers they call, as a state machine over the    *)
(* directories the program reads and writes.                               *)
(*                                                                         *)
(* A file name is a sequence of name fragments (<<"a", ".ttf">> is a.ttf); *)
(* a directory tree is a function from paths to contents, "dir" for a      *)
(* directory and a content id for a regular file.                          *)
(***************************************************************************)
EXTENDS Integers, Sequences, FiniteSets, TLC

\* Bounds of the explored inputs.
MaxGroupFiles == 2
MaxDmgs == 2
MaxNameLen == 3

VARIABLES
    pc,        \* position of the run in build.py
    avoids,    \* shutil.rmtree.avoids_symlink_attacks
    output,    \* tree under OUTPUT_PATH
    temp,      \* tree under TEMP_PATH
    srcIsDir,  \* SOURCE_PATH/windows/Fonts is a directory
    srcFonts,  \* names of the regular files in SOURCE_PATH/windows/Fonts
    dmgCache,  \* SOURCE_PATH/apple-dmgs: file name -> content
    ms,        \* locals of process_microsoft
    ap,        \* locals of process_apple
    abort,     \* why the run ended early
    queried,   \* contents fc-scan has been run on (history)
    hist       \* stages begun so far, each with whether it has finished (history)

vars == <<pc, avoids, output, temp, srcIsDir, srcFonts, dmgCache, ms, ap, abort, queried, hist>>

-----------------------------------------------------------------------------
\* Generic helpers.

Last(s) == s[Len(s)]

InList(x, s) == \E i \in 1..Len(s) : s[i] = x

SeqsUpTo(S, n) == UNION {[1..k -> S] : k \in 0..n}

RECURSIVE Concat(_)
Concat(ss) == IF ss = <<>> THEN <<>> ELSE Head(ss) \o Concat(Tail(ss))

RECURSIVE Perms(_)
Perms(S) ==
    IF S = {} THEN {<<>>}
    ELSE UNION {{<<x>> \o p : p \in Perms(S \ {x})} : x \in S}

-----------------------------------------------------------------------------
\* Directory trees (pathlib / shutil).

\* No directory at all, not even the root.
NoTree == [p \in {} |-> "dir"]

\* The tree holding the given <<path, content>> pairs.
TreeOf(S) == [p \in {x[1] : x \in S} |-> (CHOOSE x \in S : x[1] = p)[2]]

IsPrefixOf(p, q) == Len(p) <= Len(q) /\ SubSeq(q, 1, Len(p)) = p

Exists(t, p) == p \in DOMAIN t

IsDir(t, p) == Exists(t, p) /\ t[p] = "dir"

Restrict(t, D) == [p \in D |-> t[p]]

\* shutil.rmtree(p): p and everything below it.
Remove(t, p) == Restrict(t, {q \in DOMAIN t : ~IsPrefixOf(p, q)})

\* Path.mkdir(parents=True): p and its missing ancestors.
Mkdirs(t, p) ==
    LET new == {SubSeq(p, 1, k) : k \in 0..Len(p)} \ DOMAIN t
    IN  [q \in DOMAIN t \cup new |-> IF q \in new THEN "dir" ELSE t[q]]

\* Writing a regular file, overwriting what is there.
WriteFile(t, p, data) == [q \in DOMAIN t \cup {p} |-> IF q = p THEN data ELSE t[q]]

\* Names directly inside directory p.
Children(t, p) == {q \in DOMAIN t : Len(q) = Len(p) + 1 /\ IsPrefixOf(p, q)}

\* The mutant: nothing is removed.
RmtreeResultNoop(t, p, safe) == [ok |-> TRUE, tree |-> t]

\* rmtree(dir_name): nothing when absent, exit(1) without a symlink-safe
\* shutil.rmtree, the removal otherwise.
RmtreeResult(t, p, safe) ==
    IF ~Exists(t, p) THEN [ok |-> TRUE, tree |-> t]
    ELSE IF ~safe THEN [ok |-> FALSE, tree |-> t]
    ELSE [ok |-> TRUE, tree |-> Remove(t, p)]

\* The mutant: the target is left as it is.
CreateFontOutputKeep(t, dir, safe) == [ok |-> TRUE, tree |-> Mkdirs(t, <<dir>>)]

\* create_font_output(dir_name): target_path = OUTPUT_PATH / dir_name.
CreateFontOutput(t, dir, safe) ==
    LET r == IF Exists(t, <<dir>>) THEN RmtreeResult(t, <<dir>>, safe)
             ELSE [ok |-> TRUE, tree |-> t]
    IN  IF ~r.ok THEN r ELSE [ok |-> TRUE, tree |-> Mkdirs(r.tree, <<dir>>)]

-----------------------------------------------------------------------------
\* Font contents and what fc-scan prints for them.

WinA == <<"a", ".ttf">>
WinB == <<"b", ".ttf">>
WinC == <<"c", ".ttf">>
WinFiles == {WinA, WinB, WinC}

SFPro == <<"SF-Pro", ".ttf">>
SFProTextBold == <<"SF-Pro-Text", "-Bold", ".otf">>
NewYork == <<"NewYork", ".ttf">>
NewYorkSmallRegular == <<"NewYorkSmall", "-Regular", ".otf">>
UpperCaseFont == <<"x", ".OTF">>
ReadMe == <<"x", ".txt">>
NoEnglishFont == <<"x", ".ttc">>
StaleFont == <<"Old", ".otf">>

\* Content of the file of that name in the Windows source tree.
FileData(name) ==
    CASE name = WinA -> "win:a"
      [] name = WinB -> "win:b"
      [] name = WinC -> "win:c"

\* st_size of a content.
FileSize(data) ==
    CASE data = "win:a" -> 100
      [] data = "win:b" -> 200
      [] data = "win:c" -> 50
      [] OTHER -> 10

Line(f, l) == [family |-> f, lang |-> l]

\* Output of fc-scan --format "%{[]family,familylang{%{family} (%{familylang})\n}}".
FcScan(data) ==
    CASE data = "win:a" -> <<Line("Arial-ja", "ja"), Line("Arial", "en"), Line("Arial Black", "en")>>
      [] data = "win:b" -> <<Line("Foo", "de"), Line("Bar", "fr")>>
      [] data = "win:c" -> <<Line("Calibri", "en")>>
      [] data \in {"pro:SF-Pro", "ny:SF-Pro", "old:SF-Pro"} -> <<Line("SF Pro", "en")>>
      [] data = "pro:SF-Pro-Text-Bold" -> <<Line("SF Pro Text", "en")>>
      [] data = "pro:x.OTF" -> <<Line("SF Pro", "en")>>
      [] data = "ny:NewYork" -> <<Line("New York", "en"), Line("New York", "en-us")>>
      [] data = "ny:NewYorkSmall-Regular" -> <<Line("New York Small", "en")>>
      [] data = "old:x.ttc" -> <<Line("SF Arabic", "ar")>>
      [] OTHER -> <<>>

\* The mutant: the last English name.
EnglishNamesReversed(out) ==
    LET IsEn(r) == r.lang = "en" /\ r.family # ""
        en == SelectSeq(out, IsEn)
    IN  [i \in 1..Len(en) |-> en[Len(en) + 1 - i].family]

\* re.findall(r"(?m)^(.+?) \(en\)$", raw_result)
EnglishNames(out) ==
    LET IsEn(r) == r.lang = "en" /\ r.family # ""
        en == SelectSeq(out, IsEn)
    IN  [i \in 1..Len(en) |-> en[i].family]

\* get_font_family(font_file): ok is FALSE for the LookupError.
GetFontFamily(data) ==
    LET en == EnglishNames(FcScan(data))
    IN  IF Len(en) = 0 THEN [ok |-> FALSE, family |-> ""]
        ELSE [ok |-> TRUE, family |-> en[1]]

\* copy_font(font_file, target_base_path), target_base_path = OUTPUT_PATH / dir.
CopyFont(t, dir, name, data) ==
    LET r == GetFontFamily(data)
    IN  IF ~r.ok THEN [ok |-> FALSE, tree |-> t]
        ELSE LET family_path == <<dir, r.family>>
                 made == IF ~Exists(t, family_path) THEN Mkdirs(t, family_path) ELSE t
             IN  [ok |-> TRUE, tree |-> WriteFile(made, <<dir, r.family, name>>, data)]

-----------------------------------------------------------------------------
\* Run state shared by the stages.

NoAbort == [why |-> "", file |-> <<>>, group |-> ""]

Fatal(why, file, group) == [why |-> why, file |-> file, group |-> group]

Stage(name, complete) == [stage |-> name, complete |-> complete]

\* The stage `name` has begun; complete tells whether all its inputs are done.
Record(h, name, complete) ==
    IF Len(h) > 0 /\ Last(h).stage = name
    THEN [h EXCEPT ![Len(h)] = Stage(name, complete)]
    ELSE Append(h, Stage(name, complete))

\* A for loop over items, i the next index, has run out of items.
LoopDone(i, items) == i > Len(items)

NoStats == [enabled |-> <<>>, disabled |-> <<>>, size_enabled |-> 0, size_disabled |-> 0]

NoMs == [font_groups |-> <<>>, enabled_ms_groups |-> <<>>, group_stats |-> NoStats,
         items |-> <<>>, i |-> 1, final_size |-> 0]

NoAp == [process_dmgs |-> <<>>, items |-> <<>>, i |-> 1, to_keep |-> <<>>,
         to_delete |-> <<>>, font_families |-> <<>>]

\* The process exits: exit(1) or an uncaught exception.
Abort(stage, reason) ==
    /\ pc' = "aborted"
    /\ abort' = reason
    /\ hist' = Record(hist, stage, FALSE)
    /\ UNCHANGED <<ms, ap>>

-----------------------------------------------------------------------------
\* The top-level runner, before the orchestrators.

\* for dep in deps: if not command_exists(dep): exit(1)
CheckDeps ==
    /\ pc = "deps"
    /\ \E found \in BOOLEAN :
         IF found
         THEN /\ pc' = "wipe_output"
              /\ hist' = Record(hist, "deps", TRUE)
              /\ UNCHANGED <<ms, ap, abort>>
         ELSE Abort("deps", Fatal("missing dependency", <<>>, ""))
    /\ UNCHANGED <<avoids, output, temp, srcIsDir, srcFonts, dmgCache, queried>>

\* rmtree(OUTPUT_PATH)
WipeOutput ==
    /\ pc = "wipe_output"
    /\ LET r == RmtreeResult(output, <<>>, avoids)
       IN  IF r.ok
           THEN /\ output' = r.tree
                /\ pc' = "ms_source"
                /\ hist' = Record(hist, "wipe_output", TRUE)
                /\ UNCHANGED <<ms, ap, abort>>
           ELSE /\ Abort("wipe_output", Fatal("unsafe rmtree", <<>>, ""))
                /\ UNCHANGED output
    /\ UNCHANGED <<avoids, temp, srcIsDir, srcFonts, dmgCache, queried>>

-----------------------------------------------------------------------------
\* process_microsoft

GroupNames == {"win11", "zh_cn"}

\* The names in the order sorted() gives strings.
GroupOrder == <<"win11", "win11_other", "zh_cn">>

\* os.getenv("WINDOWS_FONT_GROUPS", "win11,win11_other").split(",")
EnabledChoices == {<<"win11", "win11_other">>, <<"win11", "zh_cn">>}

Block(n, fs) == [name |-> n, files |-> fs]

\* The matches of r"(?s)_ttf_ms_([^=]+)=\((.+?)\n\)" in the fetched text, each
\* with its file tokens (comments stripped); none when the text is not a PKGBUILD.
Manifests ==
    SeqsUpTo({Block(n, fs) : n \in GroupNames, fs \in SeqsUpTo(WinFiles, MaxGroupFiles)},
             Cardinality(GroupNames))

HasKey(d, k) == \E i \in 1..Len(d) : d[i].name = k

Lookup(d, k) == d[CHOOSE i \in 1..Len(d) : d[i].name = k].files

\* font_groups[group_name] = [...]: a dict keeps the position of a key it has.
DictSet(d, k, v) ==
    IF HasKey(d, k)
    THEN [i \in 1..Len(d) |-> IF d[i].name = k THEN Block(k, v) ELSE d[i]]
    ELSE Append(d, Block(k, v))

RECURSIVE ParseGroups(_, _)
ParseGroups(raw, d) ==
    IF raw = <<>> THEN d
    ELSE ParseGroups(Tail(raw), DictSet(d, Head(raw).name, Head(raw).files))

\* The mutant: the keys in insertion order.
SortedKeysUnsorted(d) == [i \in 1..Len(d) |-> d[i].name]

\* sorted(font_groups.keys())
SortedKeys(d) ==
    LET Has(g) == HasKey(d, g) IN SelectSeq(GroupOrder, Has)

\* Index of the first file of the list that is no regular file of the source tree, or 0.
FirstMissing(files, src) ==
    IF \A i \in 1..Len(files) : files[i] \in src THEN 0
    ELSE CHOOSE i \in 1..Len(files) :
            /\ files[i] \notin src
            /\ \A j \in 1..(i - 1) : files[j] \in src

RECURSIVE GroupSize(_)
GroupSize(files) ==
    IF files = <<>> THEN 0
    ELSE FileSize(FileData(Head(files))) + GroupSize(Tail(files))

NoMissing == [file |-> <<>>, group |-> ""]

\* The loop "for group_name in sorted(font_groups.keys())": the first missing
\* file with its group, or the statistics.
RECURSIVE AnalyzeGroups(_, _, _, _, _)
AnalyzeGroups(keys, d, enabled, src, stats) ==
    IF keys = <<>> THEN [missing |-> NoMissing, stats |-> stats]
    ELSE LET g == Head(keys)
             files == Lookup(d, g)
             m == FirstMissing(files, src)
             size == GroupSize(files)
             info == [group_name |-> g, group_size |-> size]
         IN  IF m # 0
             THEN [missing |-> [file |-> files[m], group |-> g], stats |-> stats]
             ELSE AnalyzeGroups(Tail(keys), d, enabled, src,
                    IF InList(g, enabled)
                    THEN [stats EXCEPT !.enabled = Append(@, info),
                                       !.size_enabled = @ + size]
                    ELSE [stats EXCEPT !.disabled = Append(@, info),
                                       !.size_disabled = @ + size])

\* The files the copy loop visits: "for group_name in font_groups" (insertion
\* order), the enabled groups only.
RECURSIVE CopyList(_, _)
CopyList(d, enabled) ==
    IF d = <<>> THEN <<>>
    ELSE (IF InList(Head(d).name, enabled) THEN Head(d).files ELSE <<>>)
         \o CopyList(Tail(d), enabled)

\* if not source_fonts.is_dir(): exit(1)
MsSource ==
    /\ pc = "ms_source"
    /\ IF srcIsDir
       THEN /\ pc' = "ms_fetch"
            /\ hist' = Record(hist, "ms_source", TRUE)
            /\ UNCHANGED <<ms, ap, abort>>
       ELSE Abort("ms_source", Fatal("missing source", <<>>, ""))
    /\ UNCHANGED <<avoids, output, temp, srcIsDir, srcFonts, dmgCache, queried>>

\* get_web_text(upstream_pkg_url), the parse of the groups, the enabled list.
MsFetch ==
    /\ pc = "ms_fetch"
    /\ \E fetched \in BOOLEAN, raw \in Manifests, enabled \in EnabledChoices :
         IF fetched
         THEN /\ ms' = [NoMs EXCEPT !.font_groups = ParseGroups(raw, <<>>),
                                    !.enabled_ms_groups = enabled]
              /\ pc' = "ms_analyze"
              /\ hist' = Record(hist, "ms_fetch", TRUE)
              /\ UNCHANGED <<ap, abort>>
         ELSE Abort("ms_fetch", Fatal("fetch failed", <<>>, ""))
    /\ UNCHANGED <<avoids, output, temp, srcIsDir, srcFonts, dmgCache, queried>>

\* The analysis of the groups: sizes, and the existence of every file.
MsAnalyze ==
    /\ pc = "ms_analyze"
    /\ LET r == AnalyzeGroups(SortedKeys(ms.font_groups), ms.font_groups,
                              ms.enabled_ms_groups, srcFonts, NoStats)
       IN  IF r.missing = NoMissing
           THEN /\ ms' = [ms EXCEPT !.group_stats = r.stats]
                /\ pc' = "ms_output"
                /\ hist' = Record(hist, "ms_analyze", TRUE)
                /\ UNCHANGED <<ap, abort>>
           ELSE Abort("ms_analyze", Fatal("missing file", r.missing.file, r.missing.group))
    /\ UNCHANGED <<avoids, output, temp, srcIsDir, srcFonts, dmgCache, queried>>

\* target_path = create_font_output("windows-fonts")
MsOutput ==
    /\ pc = "ms_output"
    /\ LET r == CreateFontOutput(output, "windows-fonts", avoids)
       IN  IF r.ok
           THEN /\ output' = r.tree
                /\ ms' = [ms EXCEPT !.items = CopyList(ms.font_groups, ms.enabled_ms_groups),
                                    !.i = 1]
                /\ pc' = "ms_copy"
                /\ hist' = Record(hist, "ms_output", TRUE)
                /\ UNCHANGED <<ap, abort>>
           ELSE /\ Abort("ms_output", Fatal("unsafe rmtree", <<>>, ""))
                /\ UNCHANGED output
    /\ UNCHANGED <<avoids, temp, srcIsDir, srcFonts, dmgCache, queried>>

\* The mutant: process_apple is entered before the copy loop has returned.
AfterMsCopyEarly(i, items) == TRUE

\* The copy loop of process_microsoft is left.
AfterMsCopy(i, items) == LoopDone(i, items)

\* One turn of the copy loop (copy_font, final_size), or the return.
MsCopy ==
    /\ pc = "ms_copy"
    /\ IF AfterMsCopy(ms.i, ms.items)
       THEN /\ pc' = "ap_fetch"
            /\ ms' = NoMs
            /\ hist' = Record(hist, "ms_copy", ms.i = Len(ms.items) + 1)
            /\ UNCHANGED <<output, ap, abort, queried>>
       ELSE LET name == ms.items[ms.i]
                data == FileData(name)
                r == CopyFont(output, "windows-fonts", name, data)
            IN  /\ queried' = queried \cup {data}
                /\ IF r.ok
                   THEN /\ output' = r.tree
                        /\ ms' = [ms EXCEPT !.i = @ + 1,
                                            !.final_size = @ + FileSize(data)]
                        /\ pc' = "ms_copy"
                        /\ hist' = Record(hist, "ms_copy", ms.i = Len(ms.items))
                        /\ UNCHANGED <<ap, abort>>
                   ELSE /\ Abort("ms_copy", Fatal("LookupError", name, ""))
                        /\ UNCHANGED output
    /\ UNCHANGED <<avoids, temp, srcIsDir, srcFonts, dmgCache>>

-----------------------------------------------------------------------------
\* process_apple

AE == <<"apple-extract">>
FontsDir == <<"fonts">>
PayloadEntry == <<"Payload~">>

\* dmg_extract_path and fonts_extract_path, below TEMP_PATH.
ScratchPath == <<AE>>
FontsPath == <<AE, FontsDir>>

\* The .dmg URLs found on the fonts page, each named by its basename.
DmgUrls == {"SF-Pro.dmg", "NewYork.dmg", "SF-Old.dmg"}

\* What the server holds for a URL.
RemoteData(url) ==
    CASE url = "SF-Pro.dmg" -> "dmg:pro"
      [] url = "NewYork.dmg" -> "dmg:ny"
      [] url = "SF-Old.dmg" -> "dmg:old"

Entry(n, d) == [name |-> n, data |-> d]

\* The entries of a disk image.
DmgEntries(data) ==
    CASE data = "dmg:pro" -> {Entry(<<"SF-Pro-", "Fonts.pkg">>, "pkg:pro"), Entry(ReadMe, "pro:x.txt")}
      [] data = "dmg:ny" -> {Entry(<<"NewYork-", "Fonts.pkg">>, "pkg:ny")}
      [] data = "dmg:old" -> {Entry(<<"SF-Pro-", "Fonts.pkg">>, "pkg:old")}
      [] OTHER -> {}

\* The Payload~ entry of a package.
PkgPayload(data) ==
    CASE data = "pkg:pro" -> "payload:pro"
      [] data = "pkg:ny" -> "payload:ny"
      [] data = "pkg:old" -> "payload:old"
      [] OTHER -> "payload:stale"

\* The entries of a payload (their Library/Fonts paths squashed).
PayloadEntries(data) ==
    CASE data = "payload:pro" ->
            {Entry(SFPro, "pro:SF-Pro"), Entry(SFProTextBold, "pro:SF-Pro-Text-Bold"),
             Entry(UpperCaseFont, "pro:x.OTF"), Entry(ReadMe, "pro:x.txt")}
      [] data = "payload:ny" ->
            {Entry(NewYork, "ny:NewYork"), Entry(NewYorkSmallRegular, "ny:NewYorkSmall-Regular"),
             Entry(SFPro, "ny:SF-Pro")}
      [] data = "payload:old" ->
            {Entry(NoEnglishFont, "old:x.ttc"), Entry(SFPro, "old:SF-Pro")}
      [] OTHER -> {Entry(StaleFont, "stale")}

\* 7z e -aoa into dir: every entry written under its name, overwriting.
ExtractInto(t, dir, entries) ==
    LET at(e) == Append(dir, e.name)
    IN  [q \in DOMAIN t \cup {at(e) : e \in entries} |->
            IF \E e \in entries : at(e) = q
            THEN (CHOOSE e \in entries : at(e) = q).data
            ELSE t[q]]

\* -ir!*Fonts.pkg
IsFontsPkg(n) == Len(n) > 0 /\ Last(n) = "Fonts.pkg"

\* -ir!*.otf -ir!*.ttf -ir!*.ttc; 7z folds case unless it runs case-sensitive.
SevenZipFont(n, caseSensitive) ==
    /\ Len(n) > 0
    /\ \/ Last(n) \in {".otf", ".ttf", ".ttc"}
       \/ ~caseSensitive /\ Last(n) \in {".OTF"}

\* dmg_extract_path.glob("*Fonts.pkg")
GlobPkgs(t) == {q[2] : q \in {r \in Children(t, ScratchPath) : IsFontsPkg(r[2])}}

\* dmg_extract_path.glob("*.payload/Payload~"), each by its directory's name
GlobPayloads(t) ==
    {q[2] : q \in {r \in Children(t, ScratchPath) :
                      /\ Len(r[2]) > 0
                      /\ Last(r[2]) = ".payload"
                      /\ Exists(t, Append(r, PayloadEntry))}}

\* fonts_extract_path.glob("*")
GlobFonts(t) == {q[3] : q \in Children(t, FontsPath)}

LF == "\n"

LegacyPrefixes ==
    {"SF-Pro-Text", "SF-Pro-Display", "SF-Compact-Text", "SF-Compact-Display",
     "NewYorkSmall", "NewYorkMedium", "NewYorkLarge", "NewYorkExtraLarge"}

FontExtensions == {".otf", ".ttf", ".ttc"}

\* "$" of a Python regex: the end of the string, or just before a final newline.
AtDollar(n, i) == i = Len(n) \/ (i = Len(n) - 1 /\ n[Len(n)] = LF)

\* re.match(r"^(?:SF-(?:Pro|Compact)-(?:Text|Display)|NewYork(?:Small|Medium|Large|ExtraLarge)).*?\.otf$", f.name)
\* ("." matches no newline)
IsLegacy(n) ==
    /\ Len(n) > 0
    /\ n[1] \in LegacyPrefixes
    /\ \E i \in 2..Len(n) :
          /\ n[i] = ".otf"
          /\ \A j \in 2..(i - 1) : n[j] # LF
          /\ AtDollar(n, i)

\* re.search(r"\.(?:otf|ttf|ttc)$", f.name)
IsFontName(n) == \E i \in 1..Len(n) : n[i] \in FontExtensions /\ AtDollar(n, i)

\* The file names the model uses, in the order sorted() gives them.
NameOrder ==
    <<NewYork, NewYorkSmallRegular, StaleFont, SFProTextBold, SFPro, UpperCaseFont,
      NoEnglishFont, ReadMe>>

RECURSIVE SeqOfSet(_)
SeqOfSet(S) ==
    IF S = {} THEN <<>>
    ELSE LET x == CHOOSE y \in S : TRUE IN <<x>> \o SeqOfSet(S \ {x})

\* sorted(list of paths of one directory); names outside NameOrder come last.
SortNames(S) ==
    LET In(n) == n \in S
        known == SelectSeq(NameOrder, In)
    IN  known \o SeqOfSet(S \ {known[i] : i \in 1..Len(known)})

\* to_keep and to_delete of the filter loop, sorted.
ToDelete(names) == SortNames({n \in names : IsLegacy(n)})

ToKeep(names) == SortNames({n \in names : ~IsLegacy(n) /\ IsFontName(n)})

\* The family names in the order sorted() gives them.
FamilyOrder ==
    <<"Arial", "Arial Black", "Calibri", "New York", "New York Small", "SF Arabic",
      "SF Pro", "SF Pro Text">>

Family(f, files) == [family |-> f, files |-> files]

\* font_families[font_family].append(font_file)
FamilyAppend(d, f, name) ==
    IF \E i \in 1..Len(d) : d[i].family = f
    THEN [i \in 1..Len(d) |-> IF d[i].family = f
                              THEN Family(f, Append(d[i].files, name)) ELSE d[i]]
    ELSE Append(d, Family(f, <<name>>))

\* The files in the order of "for font_family in sorted(font_families.keys())".
FamilyCopyList(d) ==
    LET Has(f) == \E i \in 1..Len(d) : d[i].family = f
        keys == SelectSeq(FamilyOrder, Has)
        filesOf(f) == d[CHOOSE i \in 1..Len(d) : d[i].family = f].files
    IN  Concat([k \in 1..Len(keys) |-> filesOf(keys[k])])

\* get_web_text("https://developer.apple.com/fonts/") and the search for .dmg URLs.
ApFetch ==
    /\ pc = "ap_fetch"
    /\ \E fetched \in BOOLEAN, dmg_urls \in SeqsUpTo(DmgUrls, MaxDmgs) :
         IF ~fetched THEN Abort("ap_fetch", Fatal("fetch failed", <<>>, ""))
         ELSE IF dmg_urls = <<>> THEN Abort("ap_fetch", Fatal("no DMG", <<>>, ""))
         ELSE /\ ap' = [NoAp EXCEPT !.items = dmg_urls, !.i = 1]
              /\ pc' = "ap_download"
              /\ hist' = Record(hist, "ap_fetch", TRUE)
              /\ UNCHANGED <<ms, abort>>
    /\ UNCHANGED <<avoids, output, temp, srcIsDir, srcFonts, dmgCache, queried>>

\* for dmg_url in dmg_urls: download_if_newer(...); process_dmgs.append(...)
ApDownload ==
    /\ pc = "ap_download"
    /\ IF LoopDone(ap.i, ap.items)
       THEN /\ pc' = "ap_verify"
            /\ hist' = Record(hist, "ap_download", ap.i = Len(ap.items) + 1)
            /\ UNCHANGED <<ms, ap, abort, dmgCache>>
       ELSE \E wget \in {"ok", "empty", "failed"} :
              LET url == ap.items[ap.i]
                  got == IF wget = "ok" THEN RemoteData(url) ELSE ""
              IN  IF wget = "failed"
                  THEN /\ Abort("ap_download", Fatal("wget failed", <<>>, ""))
                       /\ UNCHANGED dmgCache
                  ELSE /\ dmgCache' = [n \in DOMAIN dmgCache \cup {url} |->
                                          IF n = url THEN got ELSE dmgCache[n]]
                       /\ ap' = [ap EXCEPT !.i = @ + 1,
                                           !.process_dmgs = Append(@, url)]
                       /\ pc' = "ap_download"
                       /\ hist' = Record(hist, "ap_download", ap.i = Len(ap.items))
                       /\ UNCHANGED <<ms, abort>>
    /\ UNCHANGED <<avoids, output, temp, srcIsDir, srcFonts, queried>>

\* if not dmg_file.is_file() or dmg_file.stat().st_size < 1: exit(1)
ApVerify ==
    /\ pc = "ap_verify"
    /\ IF \A k \in 1..Len(ap.process_dmgs) :
             /\ ap.process_dmgs[k] \in DOMAIN dmgCache
             /\ dmgCache[ap.process_dmgs[k]] # ""
       THEN /\ pc' = "ap_clear"
            /\ hist' = Record(hist, "ap_verify", TRUE)
            /\ UNCHANGED <<ms, ap, abort>>
       ELSE Abort("ap_verify", Fatal("missing dmg", <<>>, ""))
    /\ UNCHANGED <<avoids, output, temp, srcIsDir, srcFonts, dmgCache, queried>>

\* The mutant: the scratch root is created, and not cleared first.
ClearScratchKeep(t, safe) == [ok |-> TRUE, tree |-> Mkdirs(t, ScratchPath)]

\* rmtree(dmg_extract_path); dmg_extract_path.mkdir(parents=True, exist_ok=True)
ClearScratch(t, safe) ==
    LET r == RmtreeResult(t, ScratchPath, safe)
    IN  IF r.ok THEN [ok |-> TRUE, tree |-> Mkdirs(r.tree, ScratchPath)] ELSE r

ApClear ==
    /\ pc = "ap_clear"
    /\ LET r == ClearScratch(temp, avoids)
       IN  IF r.ok
           THEN /\ temp' = r.tree
                /\ ap' = [ap EXCEPT !.items = ap.process_dmgs, !.i = 1]
                /\ pc' = "ap_pass1"
                /\ hist' = Record(hist, "ap_clear", TRUE)
                /\ UNCHANGED <<ms, abort>>
           ELSE /\ Abort("ap_clear", Fatal("unsafe rmtree", <<>>, ""))
                /\ UNCHANGED temp
    /\ UNCHANGED <<avoids, output, srcIsDir, srcFonts, dmgCache, queried>>

\* Pass 1: the *Fonts.pkg entries of every .dmg, into the scratch root.
ApPass1 ==
    /\ pc = "ap_pass1"
    /\ IF LoopDone(ap.i, ap.items)
       THEN \E order \in Perms(GlobPkgs(temp)) :
              /\ ap' = [ap EXCEPT !.items = order, !.i = 1]
              /\ pc' = "ap_pass2"
              /\ hist' = Record(hist, "ap_pass1", ap.i = Len(ap.items) + 1)
              /\ UNCHANGED <<ms, abort, temp>>
       ELSE \E sevenZip \in BOOLEAN :
              IF sevenZip
              THEN /\ temp' = ExtractInto(temp, ScratchPath,
                                {e \in DmgEntries(dmgCache[ap.items[ap.i]]) : IsFontsPkg(e.name)})
                   /\ ap' = [ap EXCEPT !.i = @ + 1]
                   /\ pc' = "ap_pass1"
                   /\ hist' = Record(hist, "ap_pass1", ap.i = Len(ap.items))
                   /\ UNCHANGED <<ms, abort>>
              ELSE /\ Abort("ap_pass1", Fatal("7z failed", <<>>, ""))
                   /\ UNCHANGED temp
    /\ UNCHANGED <<avoids, output, srcIsDir, srcFonts, dmgCache, queried>>

\* Pass 2: the Payload~ of every package, into <package>.payload; then the
\* fonts directory is made and the payloads are listed.
ApPass2 ==
    /\ pc = "ap_pass2"
    /\ IF LoopDone(ap.i, ap.items)
       THEN LET made == Mkdirs(temp, FontsPath)
            IN  \E order \in Perms(GlobPayloads(made)) :
                  /\ temp' = made
                  /\ ap' = [ap EXCEPT !.items = order, !.i = 1]
                  /\ pc' = "ap_pass3"
                  /\ hist' = Record(hist, "ap_pass2", ap.i = Len(ap.items) + 1)
                  /\ UNCHANGED <<ms, abort>>
       ELSE LET pkg == ap.items[ap.i]
                payload_extract_path == <<AE, pkg \o <<".payload">>>>
                made == Mkdirs(temp, payload_extract_path)
            IN  \E sevenZip \in BOOLEAN :
                  /\ temp' = IF sevenZip
                             THEN WriteFile(made, Append(payload_extract_path, PayloadEntry),
                                            PkgPayload(temp[<<AE, pkg>>]))
                             ELSE made
                  /\ IF sevenZip
                     THEN /\ ap' = [ap EXCEPT !.i = @ + 1]
                          /\ pc' = "ap_pass2"
                          /\ hist' = Record(hist, "ap_pass2", ap.i = Len(ap.items))
                          /\ UNCHANGED <<ms, abort>>
                     ELSE Abort("ap_pass2", Fatal("7z failed", <<>>, ""))
    /\ UNCHANGED <<avoids, output, srcIsDir, srcFonts, dmgCache, queried>>

\* Pass 3: the font files of every payload, into the fonts directory.
ApPass3 ==
    /\ pc = "ap_pass3"
    /\ IF LoopDone(ap.i, ap.items)
       THEN /\ ap' = [ap EXCEPT !.items = <<>>, !.i = 1]
            /\ pc' = "ap_filter"
            /\ hist' = Record(hist, "ap_pass3", ap.i = Len(ap.items) + 1)
            /\ UNCHANGED <<ms, abort, temp>>
       ELSE \E sevenZip \in BOOLEAN, caseSensitive \in BOOLEAN :
              IF sevenZip
              THEN /\ temp' = ExtractInto(temp, FontsPath,
                                {e \in PayloadEntries(temp[<<AE, ap.items[ap.i], PayloadEntry>>]) :
                                    SevenZipFont(e.name, caseSensitive)})
                   /\ ap' = [ap EXCEPT !.i = @ + 1]
                   /\ pc' = "ap_pass3"
                   /\ hist' = Record(hist, "ap_pass3", ap.i = Len(ap.items))
                   /\ UNCHANGED <<ms, abort>>
              ELSE /\ Abort("ap_pass3", Fatal("7z failed", <<>>, ""))
                   /\ UNCHANGED temp
    /\ UNCHANGED <<avoids, output, srcIsDir, srcFonts, dmgCache, queried>>

\* The legacy filter: to_keep and to_delete.
ApFilter ==
    /\ pc = "ap_filter"
    /\ ap' = [ap EXCEPT !.to_keep = ToKeep(GlobFonts(temp)),
                        !.to_delete = ToDelete(GlobFonts(temp)),
                        !.items = ToDelete(GlobFonts(temp)), !.i = 1]
    /\ pc' = "ap_delete"
    /\ hist' = Record(hist, "ap_filter", TRUE)
    /\ UNCHANGED <<avoids, output, temp, srcIsDir, srcFonts, dmgCache, ms, abort, queried>>

\* The mutant: the file stays on disk.
UnlinkNothing(t, p) == t

\* font_file.unlink()
Unlink(t, p) == Remove(t, p)

\* for font_file in to_delete: font_file.unlink(missing_ok=False)
ApDelete ==
    /\ pc = "ap_delete"
    /\ IF LoopDone(ap.i, ap.items)
       THEN /\ ap' = [ap EXCEPT !.items = ap.to_keep, !.i = 1]
            /\ pc' = "ap_classify"
            /\ hist' = Record(hist, "ap_delete", ap.i = Len(ap.items) + 1)
            /\ UNCHANGED <<ms, abort, temp>>
       ELSE LET font_file == Append(FontsPath, ap.items[ap.i])
            IN  IF Exists(temp, font_file)
                THEN /\ temp' = Unlink(temp, font_file)
                     /\ ap' = [ap EXCEPT !.i = @ + 1]
                     /\ pc' = "ap_delete"
                     /\ hist' = Record(hist, "ap_delete", ap.i = Len(ap.items))
                     /\ UNCHANGED <<ms, abort>>
                ELSE /\ Abort("ap_delete", Fatal("FileNotFoundError", ap.items[ap.i], ""))
                     /\ UNCHANGED temp
    /\ UNCHANGED <<avoids, output, srcIsDir, srcFonts, dmgCache, queried>>

\* for font_file in to_keep: font_families[get_font_family(font_file)].append(font_file)
ApClassify ==
    /\ pc = "ap_classify"
    /\ IF LoopDone(ap.i, ap.items)
       THEN /\ pc' = "ap_output"
            /\ hist' = Record(hist, "ap_classify", ap.i = Len(ap.items) + 1)
            /\ UNCHANGED <<ms, ap, abort, queried>>
       ELSE LET name == ap.items[ap.i]
                data == temp[Append(FontsPath, name)]
                r == GetFontFamily(data)
            IN  /\ queried' = queried \cup {data}
                /\ IF r.ok
                   THEN /\ ap' = [ap EXCEPT !.i = @ + 1,
                                            !.font_families = FamilyAppend(@, r.family, name)]
                        /\ pc' = "ap_classify"
                        /\ hist' = Record(hist, "ap_classify", ap.i = Len(ap.items))
                        /\ UNCHANGED <<ms, abort>>
                   ELSE Abort("ap_classify", Fatal("LookupError", name, ""))
    /\ UNCHANGED <<avoids, output, temp, srcIsDir, srcFonts, dmgCache>>

\* target_path = create_font_output("apple-fonts")
ApOutput ==
    /\ pc = "ap_output"
    /\ LET r == CreateFontOutput(output, "apple-fonts", avoids)
       IN  IF r.ok
           THEN /\ output' = r.tree
                /\ ap' = [ap EXCEPT !.items = FamilyCopyList(ap.font_families), !.i = 1]
                /\ pc' = "ap_copy"
                /\ hist' = Record(hist, "ap_output", TRUE)
                /\ UNCHANGED <<ms, abort>>
           ELSE /\ Abort("ap_output", Fatal("unsafe rmtree", <<>>, ""))
                /\ UNCHANGED output
    /\ UNCHANGED <<avoids, temp, srcIsDir, srcFonts, dmgCache, queried>>

\* One turn of the copy loop of process_apple.
ApCopy ==
    /\ pc = "ap_copy"
    /\ IF LoopDone(ap.i, ap.items)
       THEN /\ pc' = "ap_cleanup"
            /\ hist' = Record(hist, "ap_copy", ap.i = Len(ap.items) + 1)
            /\ UNCHANGED <<ms, ap, abort, output, queried>>
       ELSE LET name == ap.items[ap.i]
                data == temp[Append(FontsPath, name)]
                r == CopyFont(output, "apple-fonts", name, data)
            IN  /\ queried' = queried \cup {data}
                /\ IF r.ok
                   THEN /\ output' = r.tree
                        /\ ap' = [ap EXCEPT !.i = @ + 1]
                        /\ pc' = "ap_copy"
                        /\ hist' = Record(hist, "ap_copy", ap.i = Len(ap.items))
                        /\ UNCHANGED <<ms, abort>>
                   ELSE /\ Abort("ap_copy", Fatal("LookupError", name, ""))
                        /\ UNCHANGED output
    /\ UNCHANGED <<avoids, temp, srcIsDir, srcFonts, dmgCache>>

\* rmtree(dmg_extract_path); return final_size
ApCleanup ==
    /\ pc = "ap_cleanup"
    /\ LET r == RmtreeResult(temp, ScratchPath, avoids)
       IN  IF r.ok
           THEN /\ temp' = r.tree
                /\ ap' = NoAp
                /\ pc' = "wipe_temp"
                /\ hist' = Record(hist, "ap_cleanup", TRUE)
                /\ UNCHANGED <<ms, abort>>
           ELSE /\ Abort("ap_cleanup", Fatal("unsafe rmtree", <<>>, ""))
                /\ UNCHANGED temp
    /\ UNCHANGED <<avoids, output, srcIsDir, srcFonts, dmgCache, queried>>

-----------------------------------------------------------------------------
\* The top-level runner, after the orchestrators.

\* rmtree(TEMP_PATH)
WipeTemp ==
    /\ pc = "wipe_temp"
    /\ LET r == RmtreeResult(temp, <<>>, avoids)
       IN  IF r.ok
           THEN /\ temp' = r.tree
                /\ pc' = "done"
                /\ hist' = Record(hist, "wipe_temp", TRUE)
                /\ UNCHANGED <<ms, ap, abort>>
           ELSE /\ Abort("wipe_temp", Fatal("unsafe rmtree", <<>>, ""))
                /\ UNCHANGED temp
    /\ UNCHANGED <<avoids, output, srcIsDir, srcFonts, dmgCache, queried>>

-----------------------------------------------------------------------------
\* The states a run can start from.

\* An output root left by an earlier run.
StaleOutput ==
    TreeOf({<<<<>>, "dir">>,
            <<<<"windows-fonts">>, "dir">>,
            <<<<"windows-fonts", "Arial">>, "dir">>,
            <<<<"windows-fonts", "Arial", WinA>>, "stale">>,
            <<<<"windows-fonts", "Gone">>, "dir">>,
            <<<<"windows-fonts", "Gone", StaleFont>>, "stale">>,
            <<<<"apple-fonts">>, "dir">>,
            <<<<"apple-fonts", "SF Pro">>, "dir">>,
            <<<<"apple-fonts", "SF Pro", SFProTextBold>>, "stale">>})

\* A temp root left by a run that ended in the middle of the extraction.
StaleTemp ==
    TreeOf({<<<<>>, "dir">>,
            <<<<<<"other">>>>, "dir">>,
            <<<<AE>>, "dir">>,
            <<<<AE, <<"Old-", "Fonts.pkg">>>>, "pkg:stale">>,
            <<<<AE, <<"Old-", "Fonts.pkg", ".payload">>>>, "dir">>,
            <<<<AE, <<"Old-", "Fonts.pkg", ".payload">>, PayloadEntry>>, "payload:stale">>,
            <<<<AE, FontsDir>>, "dir">>,
            <<<<AE, FontsDir, StaleFont>>, "stale">>})

PriorOutputs == {NoTree, StaleOutput}

PriorTemps == {NoTree, StaleTemp}

PriorSources == {WinFiles, {WinA}, {}}

Init ==
    /\ pc = "deps"
    /\ avoids \in BOOLEAN
    /\ output \in PriorOutputs
    /\ temp \in PriorTemps
    /\ srcIsDir \in BOOLEAN
    /\ srcFonts \in (IF srcIsDir THEN PriorSources ELSE {{}})
    /\ dmgCache = [n \in {} |-> ""]
    /\ ms = NoMs
    /\ ap = NoAp
    /\ abort = NoAbort
    /\ queried = {}
    /\ hist = <<>>

Next ==
    \/ CheckDeps
    \/ WipeOutput
    \/ MsSource
    \/ MsFetch
    \/ MsAnalyze
    \/ MsOutput
    \/ MsCopy
    \/ ApFetch
    \/ ApDownload
    \/ ApVerify
    \/ ApClear
    \/ ApPass1
    \/ ApPass2
    \/ ApPass3
    \/ ApFilter
    \/ ApDelete
    \/ ApClassify
    \/ ApOutput
    \/ ApCopy
    \/ ApCleanup
    \/ WipeTemp

Spec == Init /\ [][Next]_vars

-----------------------------------------------------------------------------
\* The legacy filter on arbitrary names: process_apple from the filter on, the
\* fonts directory holding one file of any name made of these fragments.

Fragments ==
    LegacyPrefixes \cup {"SF-Pro", "NewYork", "SF-Arabic", "x", ".otf", ".ttf", ".ttc", ".OTF", LF}

FilterNames == SeqsUpTo(Fragments, MaxNameLen) \ {<<>>}

\* The stages of a run, in the order of build.py.
StageOrder ==
    <<"deps", "wipe_output", "ms_source", "ms_fetch", "ms_analyze", "ms_output", "ms_copy",
      "ap_fetch", "ap_download", "ap_verify", "ap_clear", "ap_pass1", "ap_pass2", "ap_pass3",
      "ap_filter", "ap_delete", "ap_classify", "ap_output", "ap_copy", "ap_cleanup",
      "wipe_temp">>

MsStages == {"ms_source", "ms_fetch", "ms_analyze", "ms_output", "ms_copy"}

AppleStages ==
    {"ap_fetch", "ap_download", "ap_verify", "ap_clear", "ap_pass1", "ap_pass2", "ap_pass3",
     "ap_filter", "ap_delete", "ap_classify", "ap_output", "ap_copy", "ap_cleanup"}

\* The history of a run whose first k stages have finished.
DoneThrough(k) == [j \in 1..k |-> Stage(StageOrder[j], TRUE)]

InitFilter ==
    /\ pc = "ap_filter"
    /\ avoids = TRUE
    /\ output = TreeOf({<<<<>>, "dir">>, <<<<"windows-fonts">>, "dir">>})
    /\ \E n \in FilterNames :
          temp = TreeOf({<<<<>>, "dir">>, <<ScratchPath, "dir">>, <<FontsPath, "dir">>,
                         <<Append(FontsPath, n), "font">>})
    /\ srcIsDir = TRUE
    /\ srcFonts = WinFiles
    /\ dmgCache = [n \in {"SF-Pro.dmg"} |-> "dmg:pro"]
    /\ ms = NoMs
    /\ ap = [NoAp EXCEPT !.process_dmgs = <<"SF-Pro.dmg">>]
    /\ abort = NoAbort
    /\ queried = {}
    /\ hist = DoneThrough(14)

NextFilter == ApFilter \/ ApDelete

SpecFilter == InitFilter /\ [][NextFilter]_vars

-----------------------------------------------------------------------------
\* What the claims compare the program with.

HasEnglish(data) == \E i \in 1..Len(FcScan(data)) : FcScan(data)[i].lang = "en"

FirstEnglish(data) ==
    LET out == FcScan(data)
    IN  out[CHOOSE i \in 1..Len(out) :
                /\ out[i].lang = "en"
                /\ \A j \in 1..(i - 1) : out[j].lang # "en"].family

Subtree(t, dir) == Restrict(t, {p \in DOMAIN t : Len(p) >= 1 /\ p[1] = dir})

FilesOf(t, dir) == {p \in DOMAIN t : Len(p) = 3 /\ p[1] = dir}

\* The tree that holds, under dir, each of the files (dataOf its contents) under
\* its family, and nothing else.
ExpectedTree(dir, files, dataOf) ==
    LET S == {files[i] : i \in 1..Len(files)}
    IN  TreeOf({<<<<dir>>, "dir">>}
               \cup {<<<<dir, FirstEnglish(dataOf[f])>>, "dir">> : f \in S}
               \cup {<<<<dir, FirstEnglish(dataOf[f]), f>>, dataOf[f]>> : f \in S})

WinData == [f \in WinFiles |-> FileData(f)]

RECURSIVE SumOfSizes(_)
SumOfSizes(S) ==
    IF S = {} THEN 0
    ELSE LET f == CHOOSE g \in S : TRUE IN FileSize(FileData(f)) + SumOfSizes(S \ {f})

RECURSIVE SumOfGroupSizes(_)
SumOfGroupSizes(infos) ==
    IF infos = <<>> THEN 0 ELSE Head(infos).group_size + SumOfGroupSizes(Tail(infos))

\* The files of the enabled groups of the mapping.
EnabledFiles(d, enabled) ==
    UNION {{d[k].files[i] : i \in 1..Len(d[k].files)} :
              k \in {j \in 1..Len(d) : InList(d[j].name, enabled)}}

GroupRank(g) == CHOOSE k \in 1..Len(GroupOrder) : GroupOrder[k] = g

AllPresent(files) == \A i \in 1..Len(files) : files[i] \in srcFonts

-----------------------------------------------------------------------------
\* The Output Organizer on any output tree: process_microsoft from
\* create_font_output on, every referenced file present, the output tree absent,
\* left by an earlier run on other inputs, or left by an earlier run on these.

InitOrganizer ==
    /\ pc = "ms_output"
    /\ avoids \in BOOLEAN
    /\ temp = NoTree
    /\ srcIsDir = TRUE
    /\ srcFonts = WinFiles
    /\ dmgCache = [n \in {} |-> ""]
    /\ ap = NoAp
    /\ abort = NoAbort
    /\ queried = {}
    /\ hist = DoneThrough(5)
    /\ \E raw \in Manifests, enabled \in EnabledChoices :
          LET d == ParseGroups(raw, <<>>)
              r == AnalyzeGroups(SortedKeys(d), d, enabled, WinFiles, NoStats)
              HasEn(f) == HasEnglish(FileData(f))
              earlier == ExpectedTree("windows-fonts",
                                      SelectSeq(CopyList(d, enabled), HasEn), WinData)
          IN  /\ ms = [NoMs EXCEPT !.font_groups = d, !.enabled_ms_groups = enabled,
                                   !.group_stats = r.stats]
              /\ output \in {NoTree, StaleOutput, Mkdirs(earlier, <<>>)}

NextOrganizer == MsOutput \/ MsCopy

SpecOrganizer == InitOrganizer /\ [][NextOrganizer]_vars

-----------------------------------------------------------------------------
\* The claims.

\* C1: the stages of a run begin in the order of StageOrder, none is skipped,
\* and a stage begins only when the stage before it has finished for all its
\* inputs; so process_microsoft has returned before any stage of process_apple
\* begins, and a run that aborts inside process_microsoft never runs one.
C1_StagesInOrder ==
    /\ Len(hist) <= Len(StageOrder)
    /\ \A k \in 1..Len(hist) : hist[k].stage = StageOrder[k]
    /\ \A k \in 1..(Len(hist) - 1) : hist[k].complete
    /\ pc \notin {"aborted", "done"} =>
          \/ /\ Len(hist) < Len(StageOrder)
             /\ pc = StageOrder[Len(hist) + 1]
             /\ Len(hist) > 0 => Last(hist).complete
          \/ Len(hist) > 0 /\ pc = Last(hist).stage
    /\ pc = "done" => Len(hist) = Len(StageOrder) /\ Last(hist).complete
    /\ pc = "aborted" => Len(hist) > 0 /\ ~Last(hist).complete
    /\ (pc = "aborted" /\ Last(hist).stage \in MsStages) =>
          /\ \A k \in 1..Len(hist) : hist[k].stage \notin AppleStages
          /\ ap = NoAp
          /\ DOMAIN dmgCache = {}

\* A whole run that reached its end, every stage done.
C1_Witness ==
    /\ pc = "done"
    /\ Len(hist) = Len(StageOrder)
    /\ Exists(output, <<"apple-fonts", "New York", NewYork>>)

\* C2 (as claimed): when the manifest yields no group, process_microsoft fails:
\* with an empty group mapping the run never creates windows-fonts and never
\* reaches the copy loop.
C2_ZeroGroupsFatal ==
    (pc \in MsStages /\ Len(ms.font_groups) = 0) =>
        /\ pc # "ms_copy"
        /\ ~Exists(output, <<"windows-fonts">>)

NoRepeats(files) ==
    \A i, j \in 1..Len(files) : files[i] = files[j] => i = j

\* C3 (as claimed): when no group lists a file twice, the enabled total, and the
\* sum of the sizes listed for the enabled groups, is the sum of the sizes of the
\* distinct files of the enabled groups: a file of two enabled groups counts once.
C3_EnabledTotalCountsFilesOnce ==
    (pc = "ms_output" /\ \A k \in 1..Len(ms.font_groups) : NoRepeats(ms.font_groups[k].files)) =>
        LET total == SumOfSizes(EnabledFiles(ms.font_groups, ms.enabled_ms_groups))
        IN  /\ ms.group_stats.size_enabled = total
            /\ SumOfGroupSizes(ms.group_stats.enabled) = total

\* The name begins with a legacy prefix and ends with .otf.
ClaimedLegacy(n) == Len(n) > 1 /\ n[1] \in LegacyPrefixes /\ Last(n) = ".otf"

\* C4 (as claimed): a name is marked for deletion iff it begins with a legacy
\* prefix and ends with .otf, any other name is kept iff it ends with .otf, .ttf
\* or .ttc, and no name is in both lists.
C4_FilterPartition ==
    (pc = "ap_delete" /\ ap.i = 1) =>
        \A n \in GlobFonts(temp) :
            /\ InList(n, ap.to_delete) <=> ClaimedLegacy(n)
            /\ InList(n, ap.to_keep) <=> (~ClaimedLegacy(n) /\ Last(n) \in FontExtensions)
            /\ ~(InList(n, ap.to_delete) /\ InList(n, ap.to_keep))

\* The partition of C4 for the names that hold no line feed.
FilterPartitionOfOneLineNames ==
    (pc = "ap_delete" /\ ap.i = 1) =>
        \A n \in GlobFonts(temp) :
            (\A i \in 1..Len(n) : n[i] # LF) =>
                /\ InList(n, ap.to_delete) <=> ClaimedLegacy(n)
                /\ InList(n, ap.to_keep) <=> (~ClaimedLegacy(n) /\ Last(n) \in FontExtensions)
                /\ ~(InList(n, ap.to_delete) /\ InList(n, ap.to_keep))

\* The output tree is the one this run builds: rmtree(OUTPUT_PATH) has run.
OutputOfThisRun == Len(hist) >= 2 /\ hist[2].complete

\* C5: once fc-scan has been run on a file with no English line the run is
\* aborted with the lookup error, and the output tree never holds a copy of such
\* a file nor a family directory without a file; every file copied sits under
\* the first English name of its fc-scan output.
C5_NoEnglishNameIsFatal ==
    /\ \A d \in queried :
          ~HasEnglish(d) => pc = "aborted" /\ abort.why = "LookupError"
    /\ OutputOfThisRun =>
          /\ \A p \in DOMAIN output :
                Len(p) = 3 => HasEnglish(output[p]) /\ p[2] = FirstEnglish(output[p])
          /\ \A p \in DOMAIN output :
                Len(p) = 2 => \E q \in DOMAIN output : Len(q) = 3 /\ IsPrefixOf(p, q)

\* The copy loop of process_microsoft has copied a.ttf, under its first English
\* name, and then stopped at b.ttf, which has no English name.
C5_Witness ==
    /\ pc = "aborted"
    /\ abort.why = "LookupError"
    /\ abort.file = WinB
    /\ Exists(output, <<"windows-fonts", "Arial", WinA>>)

\* C6: the output directory is created and files are copied only when every
\* file of every group is in the source tree; a run that ends on a missing file
\* names the first one (groups in sorted order, files in manifest order) and
\* has neither created windows-fonts nor copied a file.
C6_ValidatedBeforeOutput ==
    /\ pc \in {"ms_output", "ms_copy"} =>
          \A k \in 1..Len(ms.font_groups) : AllPresent(ms.font_groups[k].files)
    /\ abort.why = "missing file" =>
          /\ ~Exists(output, <<"windows-fonts">>)
          /\ \A p \in DOMAIN output : Len(p) < 3
          /\ queried = {}
          /\ HasKey(ms.font_groups, abort.group)
          /\ \A k \in 1..Len(ms.font_groups) :
                GroupRank(ms.font_groups[k].name) < GroupRank(abort.group)
                    => AllPresent(ms.font_groups[k].files)
          /\ LET files == Lookup(ms.font_groups, abort.group)
             IN  \E m \in 1..Len(files) :
                    /\ files[m] = abort.file
                    /\ files[m] \notin srcFonts
                    /\ AllPresent(SubSeq(files, 1, m - 1))

\* The manifest lists zh_cn before win11, zh_cn is disabled, win11 is complete
\* and the run stops on the second file of zh_cn.
C6_Witness ==
    /\ pc = "aborted"
    /\ abort.why = "missing file"
    /\ abort.group = "zh_cn"
    /\ Len(ms.font_groups) = 2
    /\ ms.font_groups[1] = Block("zh_cn", <<WinA, WinC>>)
    /\ Len(ms.font_groups[2].files) > 0
    /\ ~InList("zh_cn", ms.enabled_ms_groups)

HoldsNoContent(t) == \A p \in DOMAIN t : Len(p) = 0

\* C7 (as claimed): when process_microsoft starts neither the output root nor the
\* temp root holds content, and after the run the temp root does not exist.
C7_BothRootsWiped ==
    /\ pc = "ms_source" => HoldsNoContent(output) /\ HoldsNoContent(temp)
    /\ pc = "done" => ~Exists(temp, <<>>)

\* C7 (amended): when process_microsoft starts the output root does not exist,
\* whatever the temp root holds, and after a run that reached its end the temp
\* root does not exist.
C7_OutputRootWiped ==
    /\ pc = "ms_source" => ~Exists(output, <<>>)
    /\ pc = "done" => ~Exists(temp, <<>>)

\* process_microsoft starts with the temp root of an earlier run still there.
C7_Witness ==
    /\ pc = "ms_source"
    /\ temp = StaleTemp
    /\ ~Exists(output, <<>>)

\* C8: whatever the output tree held, during the copy loop windows-fonts holds
\* the files copied so far, each under its family, and nothing else; so at the
\* end of the loop it holds the files of the input and nothing else.
C8_CleanRebuild ==
    pc = "ms_copy" =>
        Subtree(output, "windows-fonts") =
            ExpectedTree("windows-fonts", SubSeq(ms.items, 1, ms.i - 1), WinData)

\* The loop has copied a.ttf and c.ttf into a tree an earlier run had left.
C8_Witness ==
    /\ pc = "ms_copy"
    /\ ms.i = Len(ms.items) + 1
    /\ Exists(output, <<"windows-fonts", "Arial", WinA>>)
    /\ Exists(output, <<"windows-fonts", "Calibri", WinC>>)
    /\ Exists(output, <<"apple-fonts", "SF Pro", SFProTextBold>>)

FontData(n) == temp[Append(FontsPath, n)]

\* C9: from the classification on no file of to_delete is left in the fonts
\* directory; apple-fonts only ever holds files of to_keep; and when the copy
\* loop has ended it holds exactly the files of to_keep, each once, under its
\* family and its own name.
C9_OutputIsKeepSet ==
    /\ pc \in {"ap_classify", "ap_output", "ap_copy", "ap_cleanup"} =>
          \A n \in GlobFonts(temp) : ~InList(n, ap.to_delete)
    /\ pc \in {"ap_copy", "ap_cleanup"} =>
          \A p \in FilesOf(output, "apple-fonts") :
              /\ InList(p[3], ap.to_keep)
              /\ ~InList(p[3], ap.to_delete)
              /\ IsLegacy(p[3]) = FALSE
              /\ IsFontName(p[3])
    /\ pc = "ap_cleanup" =>
          Subtree(output, "apple-fonts") =
              ExpectedTree("apple-fonts", ap.to_keep, [n \in GlobFonts(temp) |-> FontData(n)])

\* The copy loop has ended after two files were kept, one deleted and one ignored.
C9_Witness ==
    /\ pc = "ap_cleanup"
    /\ Len(ap.to_keep) >= 2
    /\ Len(ap.to_delete) >= 1
    /\ UpperCaseFont \in GlobFonts(temp)

\* The font files the archives of this run hold, each with its content.
FromThisRun(n, data) ==
    \E k \in 1..Len(ap.process_dmgs) :
        \E pkg \in DmgEntries(dmgCache[ap.process_dmgs[k]]) :
            /\ IsFontsPkg(pkg.name)
            /\ \E e \in PayloadEntries(PkgPayload(pkg.data)) : e.name = n /\ e.data = data

\* C10: the scratch root is an empty directory when pass 1 begins, every file of
\* the fonts directory after pass 3 comes from an archive of this run, and
\* after process_apple has returned the scratch root does not exist.
C10_FreshScratch ==
    /\ (pc = "ap_pass1" /\ ap.i = 1) =>
          IsDir(temp, ScratchPath) /\ Children(temp, ScratchPath) = {}
    /\ pc \in {"ap_filter", "ap_delete", "ap_classify", "ap_output", "ap_copy", "ap_cleanup"} =>
          \A n \in GlobFonts(temp) : FromThisRun(n, FontData(n))
    /\ pc \in {"wipe_temp", "done"} => ~Exists(temp, ScratchPath)

\* Pass 3 has ended in a temp root an earlier run had left.
C10_Witness ==
    /\ pc = "ap_filter"
    /\ Exists(temp, <<<<"other">>>>)
    /\ Cardinality(GlobFonts(temp)) >= 2

====
